---- MODULE Spec2Model ----
(***************************************************************************)
(* State-machine model of osFs (_osFs.py): the OS filesystem driver of     *)
(* ezFs.  Three specifications share one set of variables:                 *)
(*   SpecFile   one OsFile entity over the backing store                   *)
(*   SpecDir    OsDirectory entities, resolution, listing, delete, rename  *)
(*   SpecWatch  one OsItem.addWatch call and the environment it watches    *)
(***************************************************************************)
EXTENDS Integers, Sequences, FiniteSets, TLC

\* ---------------------------------------------------------------- bounds
MaxLen == 1            \* longest file content, in bytes
MaxMtime == 2          \* largest last-modified timestamp
MaxBatch == 2          \* change records per ReadDirectoryChangesW batch

\* ------------------------------------------------------------- the store
Names == {"a", "b"}                 \* entries of the directory /base
Ascii == 97                         \* the byte of 'a'
NotUtf8 == 255                      \* a byte that never occurs in UTF-8
NullUrl == "null"                   \* url is None / url.filePath is None
BaseDir == "/base"                  \* the directory all Names live in

RECURSIVE SeqsUpTo(_, _)
SeqsUpTo(S, n) ==
    IF n = 0 THEN {<<>>}
    ELSE LET shorter == SeqsUpTo(S, n - 1)
         IN shorter \cup {Append(s, x) : s \in {t \in shorter : Len(t) = n - 1}, x \in S}

\* file contents: text of up to MaxLen bytes, or one byte that does not decode
Data == SeqsUpTo({Ascii}, MaxLen) \cup {<<NotUtf8>>}

Absent == [kind |-> "absent"]
DirNode == [kind |-> "dir"]
FileNode(d) == [kind |-> "file", data |-> d]

VARIABLES
    store,              \* Names -> Absent | DirNode | FileNode: the OS view of /base
    mtime,              \* Names -> st_mtime of the entry
    url,                \* OsFile.url: the entity's identity (a name, or NullUrl)
    _f,                 \* OsFile._f: NoStream or the native stream
    isOpen,             \* OsFile.isOpen
    _fileAccessMode,    \* OsFile._fileAccessMode, consulted by open()
    fileAccessMode,     \* OsFile.fileAccessMode, assigned by close()
    virgin,             \* no open() has been attempted on the entity yet
    streams,            \* native streams the entity has opened and not closed
    ret,                \* outcome of the last call on the file entity
    rt,                 \* progress of a write / close / read sequence
    _children,          \* OsDirectory._children per directory entity
    lastRead,           \* outcome of the last read of children
    prevRead,           \* outcome of the read of children just before it
    dirtied,            \* what markDirty() found cached, since the last read ("clean": none)
    gone,               \* names the driver deleted and nobody created again
    drv,                \* outcome of the last driver call
    osName,             \* os.name at the addWatch call
    target,             \* what the watched entity is: "file" or "dir"
    caller,             \* where the caller of addWatch is
    watchState,         \* REGISTERING / RUNNING / TERMINATED
    termCause,          \* why the watch loop ended
    lastchange,         \* polling, file: last sampled st_mtime
    before,             \* polling, directory: last sampled names
    events,             \* pending native change records / signals
    log                 \* callback invocations, in order

storeVars == <<store, mtime>>
fileVars == <<url, _f, isOpen, _fileAccessMode, fileAccessMode, virgin, streams, ret, rt>>
dirVars == <<_children, lastRead, prevRead, dirtied, gone, drv>>
watchVars == <<osName, target, caller, watchState, termCause, lastchange, before, events, log>>
vars == <<storeVars, fileVars, dirVars, watchVars>>

\* ======================================================= the file entity
TextModes == {"r", "w"}
BinaryModes == {"rb", "wb"}
Modes == TextModes \cup BinaryModes
NoMode == "None"                    \* fileAccessMode argument left out
InheritedModes == {"r", "rb"}       \* _fileAccessMode as EzFsFile.__init__ leaves it

NoStream == [kind |-> "None"]
Stream(m, p, d) == [kind |-> "stream", mode |-> m, pos |-> p, data |-> d]

NoVal == [t |-> "none", n |-> 0, s |-> <<>>]
IntVal(i) == [t |-> "int", n |-> i, s |-> <<>>]
StrVal(q) == [t |-> "str", n |-> 0, s |-> q]
BytesVal(q) == [t |-> "bytes", n |-> 0, s |-> q]
SelfVal == [t |-> "self", n |-> 0, s |-> <<>>]

Result(op, status, a1, a2, val, opened) ==
    [op |-> op, status |-> status, a1 |-> a1, a2 |-> a2, val |-> val,
     opened |-> opened, path |-> url, wasVirgin |-> virgin, wasIsOpen |-> isOpen,
     wasNone |-> (_f.kind = "None"),
     wasMode |-> (IF _f.kind = "stream" THEN _f.mode ELSE "None")]

NoDrv == [op |-> "none", status |-> "ok", name |-> "", old |-> "", type |-> ""]
NoTrip == [stage |-> "none", data |-> <<>>, ok |-> TRUE, result |-> NoVal]

\* builtin open(path, mode, encoding='utf-8')
NativeOpenStatus(st, u, mode) ==
    IF mode \in BinaryModes THEN "ValueError"
    ELSE IF st[u].kind = "dir" THEN "IsADirectoryError"
    ELSE IF mode = "r" /\ st[u].kind = "absent" THEN "FileNotFoundError"
    ELSE "ok"

\* `self._f is None` as open() tests it, negated
HasStreamNever(f) == FALSE
HasStream(f) == f.kind # "None"

\* OsFile.open as a function of the current state: what it raises and what it leaves
OpenCall(mode) ==
    IF HasStream(_f)
    THEN [status |-> "ok", f |-> [_f EXCEPT !.pos = 0], isOpen |-> isOpen,
          fam |-> _fileAccessMode, store |-> store, virgin |-> virgin,
          streams |-> streams]
    ELSE IF url = NullUrl
    THEN [status |-> "Exception", f |-> _f, isOpen |-> isOpen,
          fam |-> _fileAccessMode, store |-> store, virgin |-> virgin,
          streams |-> streams]
    ELSE LET m == IF mode = NoMode THEN _fileAccessMode ELSE mode
             st == NativeOpenStatus(store, url, m)
             content == IF m = "w" \/ store[url].kind # "file" THEN <<>> ELSE store[url].data
         IN [status |-> st,
             f |-> IF st = "ok" THEN Stream(m, 0, content) ELSE NoStream,
             isOpen |-> TRUE,
             fam |-> m,
             store |-> IF st = "ok" /\ m = "w"
                       THEN [store EXCEPT ![url] = FileNode(<<>>)] ELSE store,
             virgin |-> FALSE,
             streams |-> IF st = "ok" THEN streams + 1 ELSE streams]

Open(mode) ==
    LET o == OpenCall(mode)
    IN /\ _f' = o.f
       /\ isOpen' = o.isOpen
       /\ _fileAccessMode' = o.fam
       /\ store' = o.store
       /\ virgin' = o.virgin
       /\ streams' = o.streams
       /\ ret' = Result("open", o.status, 0, 0, IF o.status = "ok" THEN SelfVal ELSE NoVal, o.status)
       /\ rt' = NoTrip
       /\ UNCHANGED <<url, fileAccessMode, mtime, dirVars, watchVars>>

\* the seek that is answered without a stream
SeekNoOpAlways(offset, whence) == offset = 0
SeekNoOp(offset, whence) == offset = 0 /\ whence = 0

\* TextIOWrapper.seek(offset, whence)
NativeSeekStatus(offset, whence) ==
    IF whence = 0 THEN (IF offset < 0 THEN "ValueError" ELSE "ok")
    ELSE IF offset # 0 THEN "UnsupportedOperation" ELSE "ok"

NativeSeekPos(s, offset, whence) ==
    IF whence = 0 THEN offset ELSE IF whence = 1 THEN s.pos ELSE Len(s.data)

Seek(offset, whence) ==
    /\ rt' = NoTrip
    /\ UNCHANGED <<url, fileAccessMode, mtime, dirVars, watchVars>>
    /\ IF _f.kind = "None" /\ SeekNoOp(offset, whence)
       THEN /\ ret' = Result("seek", "ok", offset, whence, NoVal, "notcalled")
            /\ UNCHANGED <<_f, isOpen, _fileAccessMode, store, virgin, streams>>
       ELSE LET o == IF _f.kind = "None" THEN OpenCall(NoMode)
                     ELSE [status |-> "ok", f |-> _f, isOpen |-> isOpen,
                           fam |-> _fileAccessMode, store |-> store, virgin |-> virgin,
                           streams |-> streams]
                sk == NativeSeekStatus(offset, whence)
                status == IF o.status # "ok" THEN o.status ELSE sk
            IN /\ _f' = IF status = "ok"
                        THEN [o.f EXCEPT !.pos = NativeSeekPos(o.f, offset, whence)]
                        ELSE o.f
               /\ isOpen' = o.isOpen
               /\ _fileAccessMode' = o.fam
               /\ store' = o.store
               /\ virgin' = o.virgin
               /\ streams' = o.streams
               /\ ret' = Result("seek", status, offset, whence, NoVal,
                                IF _f.kind = "None" THEN o.status ELSE "notcalled")

Tell ==
    /\ ret' = Result("tell", "ok", 0, 0, IntVal(IF _f.kind = "None" THEN 0 ELSE _f.pos), "notcalled")
    /\ rt' = NoTrip
    /\ UNCHANGED <<url, _f, isOpen, _fileAccessMode, fileAccessMode, virgin, streams,
                   storeVars, dirVars, watchVars>>

\* data.decode / TextIOWrapper decoding of UTF-8: bytes above 127 do not decode here
Decodable(q) == \A i \in 1..Len(q) : q[i] < 128

Rest(s) == IF s.pos >= Len(s.data) THEN <<>> ELSE SubSeq(s.data, s.pos + 1, Len(s.data))

Take(q, n) == IF n < 0 \/ n >= Len(q) THEN q ELSE SubSeq(q, 1, n)

NoCount == -1                       \* numBytes left out (None)
NoEnc == "None"                     \* encoding left out (None)

\* TextIOWrapper.read(numBytes) on the stream s
NativeReadStatus(s) ==
    IF s.mode # "r" THEN "UnsupportedOperation"
    ELSE IF ~Decodable(Rest(s)) THEN "UnicodeDecodeError"
    ELSE "ok"

Read(numBytes, encoding) ==
    /\ UNCHANGED <<url, fileAccessMode, mtime, dirVars, watchVars>>
    /\ IF _f.kind = "None"
       THEN LET o == OpenCall("rb")
                status == IF o.status = "ok" THEN "RecursionError" ELSE o.status
            IN /\ _f' = IF o.status = "ok" THEN [kind |-> "self"] ELSE o.f
               /\ isOpen' = o.isOpen
               /\ _fileAccessMode' = o.fam
               /\ store' = o.store
               /\ virgin' = o.virgin
               /\ streams' = o.streams
               /\ ret' = Result("read", status, numBytes, 0, NoVal, o.status)
               /\ rt' = IF rt.stage = "closed" /\ numBytes = NoCount /\ encoding = NoEnc
                        THEN [rt EXCEPT !.stage = "read", !.ok = FALSE]
                        ELSE NoTrip
       ELSE LET rs == NativeReadStatus(_f)
                got == IF rs = "ok" THEN Take(Rest(_f), numBytes) ELSE <<>>
                status == IF rs # "ok" THEN rs
                          ELSE IF encoding # NoEnc THEN "AttributeError" ELSE "ok"
            IN /\ _f' = [_f EXCEPT !.pos = _f.pos + Len(got)]
               /\ ret' = Result("read", status, numBytes, 0,
                                IF status = "ok" THEN StrVal(got) ELSE NoVal, "notcalled")
               /\ rt' = NoTrip
               /\ UNCHANGED <<isOpen, _fileAccessMode, store, virgin, streams>>

\* str(data).encode(encoding): the bytes write() hands to the stream
DigitBytes(i) == <<48 + i>>
ToBytes(d) == IF d.t = "int" THEN DigitBytes(d.n) ELSE d.s

WriteInputs == {BytesVal(q) : q \in Data} \cup {StrVal(q) : q \in {x \in Data : Decodable(x)}}
                   \cup {IntVal(7)}

Write(d) ==
    LET o == IF _f.kind = "None" THEN OpenCall("wb")
             ELSE [status |-> "ok", f |-> _f, isOpen |-> isOpen,
                   fam |-> _fileAccessMode, store |-> store, virgin |-> virgin,
                   streams |-> streams]
        \* a text stream refuses bytes
        status == IF o.status # "ok" THEN o.status ELSE "TypeError"
    IN /\ _f' = o.f
       /\ isOpen' = o.isOpen
       /\ _fileAccessMode' = o.fam
       /\ store' = o.store
       /\ virgin' = o.virgin
       /\ streams' = o.streams
       /\ ret' = Result("write", status, 0, 0, NoVal,
                        IF _f.kind = "None" THEN o.status ELSE "notcalled")
       /\ rt' = IF virgin
                THEN [stage |-> "written", data |-> ToBytes(d), ok |-> (status = "ok"),
                      result |-> NoVal]
                ELSE NoTrip
       /\ UNCHANGED <<url, fileAccessMode, mtime, dirVars, watchVars>>

\* `self._f is not None` as close() tests it
CloseAlways(f) == TRUE
CloseNeeded(f) == f.kind # "None"

Close ==
    /\ IF CloseNeeded(_f)
       THEN /\ isOpen' = FALSE
            /\ fileAccessMode' = ""
            /\ _f' = NoStream
            /\ streams' = IF _f.kind = "stream" THEN streams - 1 ELSE streams
       ELSE UNCHANGED <<isOpen, fileAccessMode, _f, streams>>
    /\ ret' = Result("close", "ok", 0, 0, NoVal, "notcalled")
    /\ rt' = IF rt.stage = "written" THEN [rt EXCEPT !.stage = "closed"] ELSE NoTrip
    /\ UNCHANGED <<url, _fileAccessMode, virgin, storeVars, dirVars, watchVars>>

Flush ==
    /\ ret' = Result("flush", IF _f.kind = "None" THEN "Exception" ELSE "ok", 0, 0, NoVal,
                     "notcalled")
    /\ rt' = NoTrip
    /\ UNCHANGED <<url, _f, isOpen, _fileAccessMode, fileAccessMode, virgin, streams,
                   storeVars, dirVars, watchVars>>

\* OsFile.__init__ on a new object; the object it replaces is collected (__del__ closes it)
NewFile(u) ==
    /\ url' = u
    /\ _f' = NoStream
    /\ isOpen' = FALSE
    /\ _fileAccessMode' \in InheritedModes
    /\ fileAccessMode' = "inherited"
    /\ virgin' = TRUE
    /\ streams' = 0
    /\ ret' = Result("new", "ok", 0, 0, NoVal, "notcalled")
    /\ rt' = IF rt.stage = "closed" /\ u = url THEN rt ELSE NoTrip
    /\ drv' = [NoDrv EXCEPT !.op = "new", !.name = u]
    /\ UNCHANGED <<_children, lastRead, prevRead, dirtied, gone, storeVars, watchVars>>

\* what the backing store holds at a path: os.path.isdir / os.path.exists
CurDir == BaseDir                   \* os.curdir
IsDir(st, p) == p = BaseDir \/ (p \in Names /\ st[p].kind = "dir")
Exists(st, p) == p = BaseDir \/ (p \in Names /\ st[p].kind # "absent")

\* OsFs._getFsItem: the type of entity a location resolves to
GetFsItemFileFirst(st, u) ==
    LET path == IF u = "" THEN CurDir ELSE u
    IN IF Exists(st, path) THEN "file"
       ELSE IF IsDir(st, path) THEN "dir"
       ELSE "NoFileException"

GetFsItem(st, u) ==
    LET path == IF u = "" THEN CurDir ELSE u
    IN IF IsDir(st, path) THEN "dir"
       ELSE IF Exists(st, path) THEN "file"
       ELSE "NoFileException"

\* fs.get(u) where u resolves to a file: a freshly resolved OsFile
GetFile(u) ==
    /\ GetFsItem(store, u) = "file"
    /\ NewFile(u)

\* ============================================ directories and the driver
DirEnts == {"d1"}                   \* the OsDirectory objects held for /base
Fresh == "fresh"                    \* an OsDirectory object nobody else holds

NoGen == [kind |-> "None"]
NewGen == [kind |-> "gen", started |-> FALSE, rest |-> <<>>, yielded |-> {}]
NoRead == [kind |-> "None"]

RECURSIVE SeqOf(_)
SeqOf(S) == IF S = {} THEN <<>>
            ELSE LET x == CHOOSE y \in S : TRUE IN <<x>> \o SeqOf(S \ {x})

\* os.listdir(/base)
ListDir(st) == SeqOf({n \in Names : st[n].kind # "absent"})

\* OsFs._dir: the generator, advanced by k calls of next()
RECURSIVE Pull(_, _, _, _)
Pull(st, g, k, acc) ==
    IF k = 0 THEN [g |-> g, items |-> acc, status |-> "ok", full |-> FALSE]
    ELSE LET g1 == IF g.started THEN g
                   ELSE [g EXCEPT !.started = TRUE, !.rest = ListDir(st)]
         IN IF g1.rest = <<>>
            THEN [g |-> g1, items |-> acc, status |-> "ok", full |-> TRUE]
            ELSE LET c == Head(g1.rest)
                     t == GetFsItem(st, c)
                 IN IF t = "NoFileException"
                    THEN [g |-> [g1 EXCEPT !.rest = <<>>], items |-> acc,
                          status |-> t, full |-> TRUE]
                    ELSE Pull(st, [g1 EXCEPT !.rest = Tail(g1.rest),
                                             !.yielded = g1.yielded \cup {c}],
                              k - 1, Append(acc, [name |-> c, type |-> t]))

ForgetReads == lastRead' = NoRead /\ prevRead' = NoRead

DirtyMark(d) == IF _children[d].kind = "None" THEN "wasNone" ELSE "wasGen"

\* OsDirectory.markDirty
MarkDirtyKeeps(d) == _children[d]
MarkDirtyValue(d) == NoGen

MarkDirty(d) ==
    /\ _children' = [_children EXCEPT ![d] = MarkDirtyValue(d)]
    /\ dirtied' = [dirtied EXCEPT ![d] = DirtyMark(d)]
    /\ ForgetReads
    /\ drv' = [NoDrv EXCEPT !.op = "markDirty", !.name = d]
    /\ UNCHANGED <<gone, storeVars, fileVars, watchVars>>

\* OsDirectory.children, and the caller iterating what it returned with `pulls` next() calls
ReadChildren(d, pulls) ==
    LET g0 == IF _children[d].kind = "None" THEN NewGen ELSE _children[d]
        r == Pull(store, g0, pulls, <<>>)
    IN /\ _children' = [_children EXCEPT ![d] = r.g]
       /\ lastRead' = [kind |-> "read", d |-> d, items |-> r.items, full |-> r.full,
                       status |-> r.status, afterDirty |-> dirtied[d],
                       cached |-> (_children[d].kind # "None"),
                       had |-> g0.yielded]
       /\ prevRead' = IF lastRead.kind = "None" THEN NoRead
                      ELSE [kind |-> "read", d |-> lastRead.d, items |-> lastRead.items,
                            full |-> lastRead.full]
       /\ dirtied' = [dirtied EXCEPT ![d] = "clean"]
       /\ UNCHANGED gone
       /\ drv' = [NoDrv EXCEPT !.op = "children", !.name = d, !.status = r.status]
       /\ UNCHANGED <<storeVars, fileVars, watchVars>>

Locations == Names \cup {BaseDir, ""}

\* fs.get(loc): OsFs._getFsItem on a location
Resolve(loc) ==
    /\ drv' = [NoDrv EXCEPT !.op = "resolve", !.name = loc, !.type = GetFsItem(store, loc),
                            !.status = IF GetFsItem(store, loc) = "NoFileException"
                                       THEN "NoFileException" ELSE "ok"]
    /\ UNCHANGED <<_children, lastRead, prevRead, dirtied, gone,
                   storeVars, fileVars, watchVars>>

\* os.remove(path) / shutil.rmtree(path)
NativeRemoveStatus(st, isDirEntity, u) ==
    IF st[u].kind = "absent" THEN "FileNotFoundError"
    ELSE IF isDirEntity /\ st[u].kind = "file" THEN "NotADirectoryError"
    ELSE IF ~isDirEntity /\ st[u].kind = "dir" THEN "IsADirectoryError"
    ELSE "ok"

RemoveKeeps(st, u) == st
Remove(st, u) == [st EXCEPT ![u] = Absent]

\* OsFs._delete(fsItem); p is the object fsItem.parent evaluates to
DeleteItem(isDirEntity, u, p) ==
    LET status == NativeRemoveStatus(store, isDirEntity, u)
    IN /\ drv' = [NoDrv EXCEPT !.op = "delete", !.name = u, !.status = status]
       /\ ForgetReads
       /\ UNCHANGED <<mtime, watchVars>>
       /\ dirtied' = [d \in DirEnts |-> IF status = "ok" /\ d = p THEN DirtyMark(d)
                                        ELSE dirtied[d]]
       /\ IF status = "ok"
          THEN /\ store' = Remove(store, u)
               /\ _children' = [d \in DirEnts |-> IF d = p THEN MarkDirtyValue(d)
                                                  ELSE _children[d]]
               /\ gone' = gone \cup {u}
          ELSE UNCHANGED <<store, _children, gone>>

\* E.delete() on the file entity
Delete(p) ==
    /\ url # NullUrl
    /\ DeleteItem(FALSE, url, p)
    /\ ret' = Result("delete", drv'.status, 0, 0, NoVal, "notcalled")
    /\ rt' = NoTrip
    /\ UNCHANGED <<url, _f, isOpen, _fileAccessMode, fileAccessMode, virgin, streams>>

\* fs.get(n).delete() where n resolves to a directory
DeleteDir(n, p) ==
    /\ GetFsItem(store, n) = "dir"
    /\ DeleteItem(TRUE, n, p)
    /\ UNCHANGED fileVars

\* URL.relative(newName): a bare name is a sibling, <<dir, name>> is fully qualified
NewNames == {<<n>> : n \in Names} \cup {<<BaseDir, n>> : n \in Names}
Relative(old, newName) == IF Len(newName) = 2 THEN newName[2] ELSE newName[1]

\* os.rename(old, new)
NativeRenameStatus(st, old, new) ==
    IF st[old].kind = "absent" THEN "FileNotFoundError"
    ELSE IF old = new THEN "ok"
    ELSE IF st[old].kind = "file" /\ st[new].kind = "dir" THEN "IsADirectoryError"
    ELSE IF st[old].kind = "dir" /\ st[new].kind = "file" THEN "NotADirectoryError"
    ELSE "ok"

Moved(f, old, new) == IF old = new THEN f ELSE [f EXCEPT ![new] = f[old]]

\* the identity _rename leaves on the entity after a successful native rename
RenamedUrlKept(old, new) == old
RenamedUrl(old, new) == new

\* the identity left when os.rename raised and _rename re-raises
FailedUrlMoved(old, new) == new
FailedUrl(old, new) == old

\* OsFs._rename(fsItem, newName) on the file entity
Rename(newName) ==
    /\ url # NullUrl
    /\ LET new == Relative(url, newName)
           status == NativeRenameStatus(store, url, new)
       IN /\ drv' = [NoDrv EXCEPT !.op = "rename", !.name = new, !.old = url,
                                  !.status = status,
                                  !.type = IF Len(newName) = 2 THEN "full" ELSE "bare"]
          /\ ret' = Result("rename", status, 0, 0, NoVal, "notcalled")
          /\ IF status = "ok"
             THEN /\ store' = IF url = new THEN store
                              ELSE [Moved(store, url, new) EXCEPT ![url] = Absent]
                  /\ mtime' = Moved(mtime, url, new)
                  /\ url' = RenamedUrl(url, new)
                  /\ gone' = gone \ {new}
             ELSE /\ url' = FailedUrl(url, new)
                  /\ UNCHANGED <<store, mtime, gone>>
    /\ rt' = NoTrip
    /\ ForgetReads
    /\ UNCHANGED <<_f, isOpen, _fileAccessMode, fileAccessMode, virgin, streams,
                   _children, dirtied, watchVars>>

\* another process creates or removes an entry of /base
EnvCreate(n, node) ==
    /\ store[n].kind = "absent"
    /\ store' = [store EXCEPT ![n] = node]
    /\ gone' = gone \ {n}
    /\ ForgetReads
    /\ drv' = [NoDrv EXCEPT !.op = "env", !.name = n]
    /\ UNCHANGED <<mtime, _children, dirtied, fileVars, watchVars>>

EnvRemove(n) ==
    /\ store[n].kind # "absent"
    /\ store' = [store EXCEPT ![n] = Absent]
    /\ ForgetReads
    /\ drv' = [NoDrv EXCEPT !.op = "env", !.name = n]
    /\ UNCHANGED <<mtime, _children, dirtied, gone, fileVars, watchVars>>

\* ================================================================ watches
WatchedFile == "a"                  \* source, when the watched entity is a file
NoSample == -1                      \* lastchange before the first os.stat
OsNames == {"nt", "posix", "java"}  \* os.name: windows, linux-like, anything else
Targets == {"file", "dir"}

\* the ACTIONS table of the windows branch
ActionTag(action) ==
    CASE action = 1 -> "CREATE"
      [] action = 2 -> "DELETE"
      [] action = 3 -> "UPDATE"
      [] action = 4 -> "CREATE"
      [] action = 5 -> "RENAME"

\* os.path.join(source, filename)
JoinPath(dir, filename) == <<dir, filename>>

Call(op, path, raised) == [op |-> op, path |-> path, raised |-> raised]

SourceExists(tgt) == tgt = "dir" \/ store[WatchedFile].kind # "absent"
SourceIsDir(tgt) == tgt = "dir" \/ store[WatchedFile].kind = "dir"
SourcePath(tgt) == IF tgt = "dir" THEN BaseDir ELSE WatchedFile
Present == {n \in Names : store[n].kind # "absent"}

\* OsItem.addWatch, from the call to the first point where it blocks or raises
AddWatch(os, tgt) ==
    /\ caller = "notCalled"
    /\ osName' = os
    /\ target' = tgt
    /\ log' = <<>>
    /\ events' = <<>>
    /\ UNCHANGED <<storeVars, fileVars, dirVars>>
    /\ IF os = "nt"
       THEN \* CreateFile, then the first ReadDirectoryChangesW
            /\ UNCHANGED <<lastchange, before>>
            /\ IF SourceExists(tgt) /\ SourceIsDir(tgt)
               THEN /\ watchState' = "RUNNING"
                    /\ caller' = "inAddWatch"
                    /\ termCause' = "none"
               ELSE /\ watchState' = "TERMINATED"
                    /\ caller' = "raised"
                    /\ termCause' = "native"
       ELSE IF os = "posix"
       THEN \* signal.signal, os.open, fcntl F_NOTIFY, then the sleep loop
            /\ UNCHANGED <<lastchange, before>>
            /\ IF SourceExists(tgt) /\ SourceIsDir(tgt)
               THEN /\ watchState' = "RUNNING"
                    /\ caller' = "inAddWatch"
                    /\ termCause' = "none"
               ELSE /\ watchState' = "TERMINATED"
                    /\ caller' = "raised"
                    /\ termCause' = "native"
       ELSE IF tgt = "file"
       THEN \* os.stat, then time.sleep with the local name `time` unbound
            /\ UNCHANGED before
            /\ watchState' = "TERMINATED"
            /\ caller' = "raised"
            /\ IF SourceExists(tgt)
               THEN /\ lastchange' = mtime[WatchedFile]
                    /\ termCause' = "UnboundLocalError"
               ELSE /\ lastchange' = NoSample
                    /\ termCause' = "native"
       ELSE \* import time, os.listdir, then the sleep of the first round
            /\ UNCHANGED lastchange
            /\ before' = Present
            /\ watchState' = "RUNNING"
            /\ caller' = "inAddWatch"
            /\ termCause' = "none"

Running(os) == watchState = "RUNNING" /\ osName = os

\* the callbacks of one round: calls[i] is invoked unless an earlier one raised out of
\* the loop; `raising` holds the indexes whose invocation raises, `caught` tells
\* whether the loop has a handler around the invocation
RECURSIVE Invoke(_, _, _, _)
Invoke(calls, raising, caught, i) ==
    IF i > Len(calls) THEN <<>>
    ELSE LET c == Call(calls[i].op, calls[i].path, i \in raising)
         IN IF i \in raising /\ ~caught THEN <<c>>
            ELSE <<c>> \o Invoke(calls, raising, caught, i + 1)

Escaped(made) == made # <<>> /\ made[Len(made)].raised

\* windows: one ReadDirectoryChangesW batch, each record delivered inside try/except
NtCaught == TRUE

NtBatch(raising) ==
    /\ Running("nt")
    /\ events # <<>>
    /\ LET calls == [i \in 1..Len(events) |->
                        [op |-> ActionTag(events[i].action),
                         path |-> JoinPath(SourcePath(target), events[i].filename)]]
           made == Invoke(calls, raising, NtCaught, 1)
       IN /\ log' = made
          /\ IF NtCaught \/ ~Escaped(made)
             THEN UNCHANGED <<watchState, caller, termCause>>
             ELSE /\ watchState' = "TERMINATED"
                  /\ caller' = "raised"
                  /\ termCause' = "callback"
    /\ events' = <<>>
    /\ UNCHANGED <<osName, target, lastchange, before, storeVars, fileVars, dirVars>>

\* linux: SIGIO interrupts time.sleep and runs handler(signum, frame) in the caller
PosixSignal(raises) ==
    /\ Running("posix")
    /\ events # <<>>
    /\ events' = <<>>
    /\ log' = <<Call("UPDATE", <<SourcePath(target)>>, raises)>>
    /\ IF raises
       THEN /\ watchState' = "TERMINATED"
            /\ caller' = "raised"
            /\ termCause' = "callback"
       ELSE UNCHANGED <<watchState, caller, termCause>>
    /\ UNCHANGED <<osName, target, lastchange, before, storeVars, fileVars, dirVars>>

\* polling, directory: one round after time.sleep returns
PollDir(raising) ==
    /\ Running("java")
    /\ target = "dir"
    /\ LET after == Present
           added == SeqOf(after \ before)
           removed == before \ after
           calls == [i \in 1..Len(added) |-> [op |-> "CREATE", path |-> <<BaseDir>>]]
                    \o (IF removed # {} THEN <<[op |-> "REMOVE", path |-> <<BaseDir>>]>>
                        ELSE <<>>)
           made == Invoke(calls, raising, FALSE, 1)
       IN /\ log' = made
          /\ IF Escaped(made)
             THEN /\ watchState' = "TERMINATED"
                  /\ caller' = "raised"
                  /\ termCause' = "callback"
                  /\ UNCHANGED before
             ELSE /\ before' = after
                  /\ UNCHANGED <<watchState, caller, termCause>>
    /\ UNCHANGED <<osName, target, lastchange, events, storeVars, fileVars, dirVars>>

\* what the kernel queues for the watcher when an entry of /base changes
Notify(action, n) ==
    IF Running("nt") THEN Append(events, [action |-> action, filename |-> n])
    ELSE IF Running("posix") /\ action \in {1, 3}
    THEN <<[action |-> 0, filename |-> ""]>>
    ELSE events

CanNotify == ~Running("nt") \/ Len(events) < MaxBatch

WatchEnvCreate(n) ==
    /\ store[n].kind = "absent"
    /\ CanNotify
    /\ store' = [store EXCEPT ![n] = FileNode(<<>>)]
    /\ events' = Notify(1, n)
    /\ UNCHANGED <<mtime, osName, target, caller, watchState, termCause, lastchange,
                   before, log, fileVars, dirVars>>

WatchEnvRemove(n) ==
    /\ store[n].kind # "absent"
    /\ CanNotify
    /\ store' = [store EXCEPT ![n] = Absent]
    /\ events' = Notify(2, n)
    /\ UNCHANGED <<mtime, osName, target, caller, watchState, termCause, lastchange,
                   before, log, fileVars, dirVars>>

WatchEnvTouch(n) ==
    /\ store[n].kind = "file"
    /\ mtime[n] < MaxMtime
    /\ CanNotify
    /\ mtime' = [mtime EXCEPT ![n] = mtime[n] + 1]
    /\ events' = Notify(3, n)
    /\ UNCHANGED <<store, osName, target, caller, watchState, termCause, lastchange,
                   before, log, fileVars, dirVars>>

\* ----------------------------------------------------- unsupported operations

\* the watch state removeWatch leaves behind: it raises before touching anything
RemoveWatchCancels(ws) == IF ws = "RUNNING" THEN "CANCELLED" ELSE ws
RemoveWatchLeaves(ws) == ws

\* OsFsItem.removeWatch(watchFn): callable from the callback or from another
\* thread while the loop runs; raises NotImplementedError
RemoveWatch ==
    /\ drv' = [NoDrv EXCEPT !.op = "removeWatch", !.status = "NotImplementedError"]
    /\ watchState' = RemoveWatchLeaves(watchState)
    /\ UNCHANGED <<storeVars, fileVars, _children, lastRead, prevRead, dirtied, gone,
                   osName, target, caller, termCause, lastchange, before, events, log>>

\* OsDirectory.mount(location, otherFs): raises NotImplementedError
Mount(d, loc) ==
    /\ drv' = [NoDrv EXCEPT !.op = "mount", !.status = "NotImplementedError",
                            !.name = loc]
    /\ UNCHANGED <<storeVars, fileVars, _children, lastRead, prevRead, dirtied, gone,
                   watchVars>>

\* ========================================================= specifications
Init ==
    /\ store = [n \in Names |-> IF n = "a" THEN FileNode(<<Ascii>>) ELSE Absent]
    /\ mtime = [n \in Names |-> 0]
    /\ url = "a"
    /\ _f = NoStream
    /\ isOpen = FALSE
    /\ _fileAccessMode \in InheritedModes
    /\ fileAccessMode = "inherited"
    /\ virgin = TRUE
    /\ streams = 0
    /\ ret = [op |-> "new", status |-> "ok", a1 |-> 0, a2 |-> 0, val |-> NoVal,
              opened |-> "notcalled", path |-> "a", wasVirgin |-> TRUE,
              wasIsOpen |-> FALSE, wasNone |-> TRUE, wasMode |-> "None"]
    /\ rt = NoTrip
    /\ _children = [d \in DirEnts |-> NoGen]
    /\ lastRead = NoRead
    /\ prevRead = NoRead
    /\ dirtied = [d \in DirEnts |-> "clean"]
    /\ gone = {}
    /\ drv = NoDrv
    /\ osName = "unset"
    /\ target = "unset"
    /\ caller = "notCalled"
    /\ watchState = "REGISTERING"
    /\ termCause = "none"
    /\ lastchange = NoSample
    /\ before = {}
    /\ events = <<>>
    /\ log = <<>>

Offsets == {-1, 0, 1}
Whences == {0, 1, 2}
Counts == {NoCount} \cup (0..MaxLen)
Encodings == {NoEnc, "utf-8"}
Nodes == {DirNode} \cup {FileNode(d) : d \in Data}

FileNext ==
    \/ \E m \in Modes \cup {NoMode} : Open(m)
    \/ \E o \in Offsets, w \in Whences : Seek(o, w)
    \/ Tell
    \/ \E c \in Counts, e \in Encodings : Read(c, e)
    \/ \E d \in WriteInputs : Write(d)
    \/ Close
    \/ Flush
    \/ \E u \in Names \cup {NullUrl} : NewFile(u)
    \/ \E u \in Names : GetFile(u)
    \/ \E nn \in NewNames : Rename(nn)
    \/ \E n \in Names, node \in Nodes : EnvCreate(n, node)
    \/ \E n \in Names : EnvRemove(n)

SpecFile == Init /\ [][FileNext]_vars

DirNext ==
    \/ \E d \in DirEnts : MarkDirty(d)
    \/ \E d \in DirEnts, k \in 0..(Cardinality(Names) + 1) : ReadChildren(d, k)
    \/ \E loc \in Locations : Resolve(loc)
    \/ \E u \in Names : GetFile(u)
    \/ \E p \in DirEnts \cup {Fresh} : Delete(p)
    \/ \E n \in Names, p \in DirEnts \cup {Fresh} : DeleteDir(n, p)
    \/ \E nn \in NewNames : Rename(nn)
    \/ \E n \in Names, node \in {DirNode, FileNode(<<>>)} : EnvCreate(n, node)
    \/ \E d \in DirEnts, loc \in Names : Mount(d, loc)

SpecDir == Init /\ [][DirNext]_vars

WatchStep ==
    \/ \E os \in OsNames, tgt \in Targets : AddWatch(os, tgt)
    \/ \E raising \in SUBSET (1..MaxBatch) : NtBatch(raising)
    \/ \E raises \in BOOLEAN : PosixSignal(raises)
    \/ \E raising \in SUBSET (1..(Cardinality(Names) + 1)) : PollDir(raising)

WatchNext ==
    \/ WatchStep
    \/ \E n \in Names : WatchEnvCreate(n)
    \/ \E n \in Names : WatchEnvRemove(n)
    \/ \E n \in Names : WatchEnvTouch(n)
    \/ RemoveWatch
    \/ \E d \in DirEnts, loc \in Names : Mount(d, loc)

SpecWatch == Init /\ [][WatchNext]_vars

\* the caller's thread keeps executing addWatch while it has a step to take
SpecWatchFair == SpecWatch /\ WF_vars(WatchStep)

Spec == SpecFile

\* ================================================================= claims

\* C1: write(B) on a never-opened file entity, then close(), then read() with no
\* count (same entity or a freshly resolved one) completes and returns exactly B.
C1_WriteCloseReadRoundTrip ==
    /\ rt.stage = "written" => rt.ok
    /\ rt.stage = "read" => (rt.ok /\ rt.result = BytesVal(rt.data))

\* C2: addWatch returns to its caller right after registration, so whenever the
\* watch loop is RUNNING the caller has returned and is not blocked by the loop.
C2_AddWatchReturnsImmediately ==
    watchState = "RUNNING" => caller = "returned"

\* C3: an exception raised by the user callback is suppressed in every backend:
\* after a round in which an invocation raised, the watch loop is still RUNNING.
C3_CallbackFailureSuppressed ==
    (\E i \in 1..Len(log) : log[i].raised) => watchState = "RUNNING"

\* C4: two consecutive complete reads of D.children, with no markDirty() and no
\* mutation in between, enumerate the same sequence of child entities.
C4_ConsecutiveReadsAgree ==
    (/\ lastRead.kind = "read" /\ prevRead.kind = "read"
     /\ lastRead.d = prevRead.d
     /\ lastRead.full /\ prevRead.full)
    => lastRead.items = prevRead.items

\* what the backing store holds at a location, and the entity type that names it
StoreClass(loc) == IF loc \in {BaseDir, ""} THEN "dir" ELSE store[loc].kind
TypeOfClass(c) == IF c = "absent" THEN "NoFileException" ELSE c
StoreListing == {[name |-> n, type |-> TypeOfClass(store[n].kind)] :
                    n \in {m \in Names : store[m].kind # "absent"}}
ItemsOf(r) == {r.items[i] : i \in 1..Len(r.items)}

\* C5: after D.markDirty(), whatever the cache held, the next read of D.children
\* enumerates the backing store again: a complete enumeration yields exactly the
\* entries the store holds at that read.
C5_RelistAfterMarkDirty ==
    (lastRead.kind = "read" /\ lastRead.afterDirty # "clean")
    => /\ ~lastRead.cached
       /\ lastRead.full => (/\ ItemsOf(lastRead) = StoreListing
                            /\ Len(lastRead.items) = Cardinality(StoreListing))

C5_Witness ==
    /\ lastRead.kind = "read" /\ lastRead.afterDirty = "wasGen" /\ lastRead.full
    /\ lastRead.items # <<>>

\* C6: after a successful delete of F the store no longer holds F, and no later
\* read of children includes F, also on a directory entity whose cached listing
\* had produced F before the delete.
C6_DeletedNotListed ==
    /\ (drv.op = "delete" /\ drv.status = "ok") => store[drv.name].kind = "absent"
    /\ lastRead.kind = "read" => \A i \in 1..Len(lastRead.items) : lastRead.items[i].name \notin gone

C6_Witness ==
    /\ lastRead.kind = "read" /\ lastRead.cached
    /\ lastRead.had \cap gone # {}

\* C7: after a successful rename, by bare name or by fully-qualified location, the
\* entity's identity is the new location, and every later call on the same entity
\* addresses that location.
C7_RenameMovesIdentity ==
    (drv.op = "rename" /\ drv.status = "ok")
    => /\ url = drv.name
       /\ ret.op = "rename" => (/\ store[url].kind # "absent"
                                /\ drv.old # drv.name => store[drv.old].kind = "absent")
       /\ ret.op # "rename" => ret.path = drv.name

C7_Witness ==
    /\ drv.op = "rename" /\ drv.status = "ok" /\ drv.type = "full" /\ drv.old # drv.name
    /\ ret.op = "open" /\ ret.status = "ok" /\ ret.path = drv.name

\* C8: resolve(P) gives a Directory exactly when the store classifies P as a
\* directory, a File exactly when P exists and is not a directory, and fails with
\* does-not-exist exactly when nothing is at P; listed entities are typed the same way.
C8_ResolveMatchesStore ==
    /\ drv.op = "resolve" => drv.type = TypeOfClass(StoreClass(drv.name))
    /\ lastRead.kind = "read"
       => \A i \in 1..Len(lastRead.items) :
             lastRead.items[i].type = TypeOfClass(StoreClass(lastRead.items[i].name))

C8_Witness ==
    /\ drv.op = "resolve" /\ drv.type = "NoFileException"
    /\ lastRead.kind = "read" /\ \E i \in 1..Len(lastRead.items) : lastRead.items[i].type = "dir"

SeekOnNeverOpened == ret.op = "seek" /\ ret.wasVirgin /\ ret.wasNone
TellUnopened ==
    (ret.op = "tell" /\ ret.wasNone)
    => (ret.val = IntVal(0) /\ _f.kind = "None" /\ isOpen = ret.wasIsOpen)

\* C9 as stated: on a never-opened entity seek(0, absolute) opens nothing and tell()
\* reports 0 without opening; every other seek call leaves a stream open.
C9_OtherSeeksOpenTheStream ==
    /\ SeekOnNeverOpened
       => IF ret.a1 = 0 /\ ret.a2 = 0
          THEN _f.kind = "None" /\ isOpen = ret.wasIsOpen
          ELSE _f.kind = "stream"
    /\ TellUnopened

\* C9 amended: on a never-opened entity seek(0, absolute) opens nothing and tell()
\* reports 0 without opening; every other seek call calls open(), and a stream is
\* open afterwards exactly when that open() did not raise.
C9_OtherSeeksCallOpen ==
    /\ SeekOnNeverOpened
       => IF ret.a1 = 0 /\ ret.a2 = 0
          THEN _f.kind = "None" /\ isOpen = ret.wasIsOpen /\ ret.opened = "notcalled"
          ELSE ret.opened # "notcalled" /\ (_f.kind = "stream" <=> ret.opened = "ok")
    /\ TellUnopened

C9_Witness ==
    /\ SeekOnNeverOpened /\ ret.a1 = 0 /\ ret.a2 = 2
    /\ ret.opened = "ok" /\ _f.kind = "stream"

PollFileChangePending ==
    /\ osName = "java" /\ target = "file"
    /\ lastchange # NoSample
    /\ store[WatchedFile].kind = "file"
    /\ mtime[WatchedFile] # lastchange

UpdateDelivered == \E i \in 1..Len(log) : log[i].op = "UPDATE"

\* C10: in the polling watch on a single file, a sampling interval in which the
\* last-modified timestamp differs from the previous sample triggers an UPDATE
\* callback: a pending change leads to an UPDATE (or to the file vanishing).
C10_ChangeTriggersUpdate ==
    PollFileChangePending ~> (UpdateDelivered \/ store[WatchedFile].kind # "file")

\* C11: removeWatch(callback) and mount(location, otherFilesystem) always fail with
\* NotImplementedError and change no state: the watch keeps its state (RUNNING
\* stays RUNNING, nothing is ever CANCELLED) and no directory cache, entity
\* identity, stream or store changes in the step.
C11_UnsupportedChangeNothing ==
    [][(drv' # drv /\ drv'.op \in {"removeWatch", "mount"})
       => /\ drv'.status = "NotImplementedError"
          /\ watchState' # "CANCELLED"
          /\ UNCHANGED <<storeVars, fileVars, _children, dirtied, gone, watchVars>>]_vars

\* removeWatch has been called on a watch that is RUNNING
C11_Witness ==
    /\ drv.op = "removeWatch" /\ drv.status = "NotImplementedError"
    /\ watchState = "RUNNING"

\* C12: read(count?) on a file entity with no open stream, whose location names an
\* existing file, opens exactly one native stream in binary-read mode, returns the
\* bytes read and terminates; afterwards the entity's stream is that native stream.
C12_ReadOpensBinaryStream ==
    (/\ ret.op = "read" /\ ret.wasNone
     /\ ret.path \in Names /\ store[ret.path].kind = "file")
    => /\ ret.status = "ok"
       /\ _f.kind = "stream" /\ _f.mode = "rb"
       /\ streams = 1

C14_CloseResetsRememberedMode ==
    (ret.op = "close" /\ ~ret.wasNone) => _fileAccessMode # ret.wasMode

\* C15: close() never raises and leaves the entity without a stream; on an entity
\* with no open stream (never opened, or already closed) it changes nothing, so
\* close();close() leaves the same state as close().
C15_CloseIdempotent ==
    [][(ret'.op = "close" /\ ret' # ret)
       => /\ ret'.status = "ok"
          /\ _f'.kind = "None" /\ streams' = 0
          /\ (_f.kind = "None")
             => UNCHANGED <<url, _f, isOpen, _fileAccessMode, fileAccessMode, virgin,
                           streams, storeVars>>]_vars

\* close() has been called a second time, on an entity an earlier close() had
\* left without a stream
C15_Witness ==
    /\ ret.op = "close" /\ ret.wasNone /\ ret.status = "ok"
    /\ ~ret.wasVirgin /\ fileAccessMode = "" /\ _f.kind = "None"

\* C16: every successful rename performed by the driver on an entity under
\* directory D clears D's cached children, so that the next read of children on
\* the directory entity re-lists the backing store.
C16_RenameClearsCache ==
    (drv.op = "rename" /\ drv.status = "ok")
    => \A d \in DirEnts : _children[d].kind = "None"

\* C17: when the native rename fails, rename(E, newName) re-raises the native
\* error to the caller and E's identity stays its old location; the identity of
\* an entity changes only in a rename that succeeded (a step that replaces the
\* entity by a newly constructed one is not a change of identity).
C17_FailedRenameKeepsIdentity ==
    /\ []((drv.op = "rename" /\ drv.status # "ok")
          => (url = drv.old /\ ret.op = "rename" /\ ret.status = drv.status))
    /\ [][(url' # url)
          => \/ drv'.op = "rename" /\ drv'.status = "ok" /\ drv'.old = url
             \/ drv'.op = "new"]_vars

\* a rename to a different name has failed and the entity still has its old identity
C17_Witness ==
    /\ drv.op = "rename" /\ drv.status # "ok" /\ drv.name # drv.old
    /\ ret.op = "rename" /\ ret.status = drv.status
    /\ url = drv.old

\* C18: in the polling watch on a directory, every sampling round invokes the
\* callback once with CREATE for each name present in the new sample and absent
\* from the previous one, once in total with REMOVE if a name of the previous
\* sample is absent from the new one, and not at all when the two samples hold
\* the same names; the new sample then becomes the one the next round compares with.
C18_PollDirReportsDifference ==
    [][(/\ Running("java") /\ target = "dir"
        /\ <<log, before, watchState>>' # <<log, before, watchState>>)
       => LET creates == {i \in 1..Len(log') : log'[i].op = "CREATE"}
              removes == {i \in 1..Len(log') : log'[i].op = "REMOVE"}
          IN /\ Cardinality(creates) = Cardinality(Present \ before)
             /\ Cardinality(removes) = (IF before \ Present # {} THEN 1 ELSE 0)
             /\ Len(log') = Cardinality(creates) + Cardinality(removes)
             /\ (watchState' = "RUNNING" => before' = Present)]_vars

PollFileStatFails ==
    /\ osName = "java" /\ target = "file"
    /\ lastchange # NoSample
    /\ store[WatchedFile].kind = "absent"

DeleteDelivered == \E i \in 1..Len(log) : log[i].op = "DELETE"

\* C19: in the polling watch on a single file, the callback is invoked with DELETE
\* when a stat of the watched file fails at a sampling interval, and in no other
\* case: a watched file that has vanished leads to a DELETE (or to the file being
\* back before it was sampled), and DELETE is delivered only while the file is gone.
C19_DeleteOnStatFailure ==
    /\ PollFileStatFails ~> (DeleteDelivered \/ store[WatchedFile].kind # "absent")
    /\ [][(osName = "java" /\ target = "file" /\ DeleteDelivered' /\ log' # log)
          => store[WatchedFile].kind = "absent"]_vars

\* C20: after any sequence of file-entity operations, including an open() that
\* fails, the entity's isOpen flag is true if and only if the entity holds an
\* open stream.
C20_IsOpenIffStream ==
    isOpen <=> (_f.kind = "stream")

====
